---------------------------- MODULE Spec2Model ----------------------------
(***************************************************************************)
(* Slice-thickness measurement (src/main.py): the half-max thickness       *)
(* detector, the vertical line sampler, the frame loop of analyze_video    *)
(* and the script around it (calibration, CSV, log).                       *)
(*                                                                         *)
(* Numbers that Python holds as floats (depths, mean thicknesses, the      *)
(* pixel-to-mm ratio) are exact fractions <<numerator, denominator>> in    *)
(* lowest terms: rounding is not modelled.                                 *)
(***************************************************************************)
EXTENDS Integers, Sequences, FiniteSets, TLC

\* ------------------------------------------------------------------ bounds
MaxProfileLen == 5      \* longest intensity profile given to the detector alone
MaxIntensity == 2       \* intensities 0..MaxIntensity given to the detector alone
MaxLineWidth == 10      \* widest frame given to the line sampler alone
MaxSampleLines == 12    \* most lines asked of the line sampler alone
MaxFrames == 3          \* largest frame count of the video
MaxStride == 2          \* largest frame interval
MaxDepth == 2           \* largest maximum depth, in mm
MaxLines == 2           \* most lines the user asks for
MaxHeight == 3          \* tallest frame of the video
MinWidth == 9           \* narrowest frame of the video
MaxWidth == 10          \* widest frame of the video

\* grey levels of a preprocessed frame in the frame loop (dark, bright)
FramePixels == {0, 1}

\* a name that is not bound (a local never assigned, a file never opened)
Unbound == <<>>

\* a bound name holding v, and what it holds
Bound(v) == <<v>>

ValueOf(name) == name[1]

VARIABLES
    \* the detector on its own: calculate_thickness(d_profile, d_threshold)
    d_pc, d_profile, d_threshold, d_result,
    \* the sampler on its own: extract_vertical_lines on a frame s_width wide
    s_pc, s_width, s_num_lines, s_percent, s_i, s_lines,
    \* the script and analyze_video
    pc, failure,
    video, max_depth_mm, frame_interval, use_multiple_lines, num_lines,
    enable_visualizations, use_exclusion_zone,
    top_threshold_pixels, total_pixels, exclusion_zone_depth, depth_increment,
    frame_num, frame, line_i, line_thicknesses, depths, thicknesses,
    pixel_to_mm_ratio, thicknesses_mm, csv_rows, log_file,
    \* history: what the read of each sampled index gave and whether any of its lines
    \* measured a positive thickness, the frame index of each series entry, and the
    \* thickness measured on every line of the current frame
    sampled, entry_frame, measured

detectorVars == <<d_pc, d_profile, d_threshold, d_result>>
samplerVars == <<s_pc, s_width, s_num_lines, s_percent, s_i, s_lines>>
inputVars == <<video, max_depth_mm, frame_interval, use_multiple_lines, num_lines,
               enable_visualizations, use_exclusion_zone>>
setupVars == <<top_threshold_pixels, total_pixels, exclusion_zone_depth, depth_increment>>
loopVars == <<frame_num, frame, line_i, line_thicknesses, depths, thicknesses,
              sampled, entry_frame, measured>>
outputVars == <<pixel_to_mm_ratio, thicknesses_mm, csv_rows, log_file>>
runVars == <<pc, failure, inputVars, setupVars, loopVars, outputVars>>
vars == <<detectorVars, samplerVars, runVars>>

\* ------------------------------------------------------------- arithmetic
RECURSIVE GCD(_, _)
GCD(a, b) == IF b = 0 THEN a ELSE GCD(b, a % b)

\* n / d (true division, d > 0, n >= 0) in lowest terms
Frac(n, d) == LET g == GCD(n, d) IN <<n \div g, d \div g>>

\* the int k as a float
FromInt(k) == <<k, 1>>

\* x / k for a fraction x and an int k > 0
DivInt(x, k) == Frac(x[1], x[2] * k)

\* k * x for an int k >= 0 and a fraction x
MulInt(k, x) == Frac(k * x[1], x[2])

\* x * y for two fractions
Mul(x, y) == Frac(x[1] * y[1], x[2] * y[2])

\* x <= y for two fractions
Leq(x, y) == x[1] * y[2] <= y[1] * x[2]

RECURSIVE SeqSum(_)
SeqSum(s) == IF s = <<>> THEN 0 ELSE Head(s) + SeqSum(Tail(s))

RECURSIVE SeqMax(_)
SeqMax(s) ==
    IF Len(s) = 1 THEN s[1]
    ELSE LET m == SeqMax(Tail(s)) IN IF s[1] >= m THEN s[1] ELSE m

\* ------------------------------------------------------ thickness detector
\* thresholds are fractions that a float holds exactly
Thresholds == {<<1, 4>>, <<1, 2>>, <<1, 1>>}

\* intensity_profile[i] >= half_max, with half_max = max_intensity * threshold
AtLeastHalfMax(v, max_intensity, threshold) ==
    v * threshold[2] >= max_intensity * threshold[1]

\* one pass of the for loop body of calculate_thickness at 0-based index i
ScanStep(st, i, above) ==
    IF above /\ ~st.in_peak
    THEN [st EXCEPT !.start = i, !.in_peak = TRUE]
    ELSE IF ~above /\ st.in_peak
    THEN [st EXCEPT !.thickness = i - st.start, !.in_peak = FALSE]
    ELSE st

RECURSIVE Scan(_, _, _, _)
Scan(intensity_profile, half, i, st) ==
    IF i >= Len(intensity_profile) THEN st
    ELSE Scan(intensity_profile, half, i + 1,
              ScanStep(st, i,
                       AtLeastHalfMax(intensity_profile[i + 1], half[1], half[2])))

\* the same scan keeping the first completed peak (a later exit does not overwrite)
RECURSIVE ScanFirst(_, _, _, _)
ScanFirst(intensity_profile, half, i, st) ==
    IF i >= Len(intensity_profile) THEN st
    ELSE LET nx == ScanStep(st, i,
                     AtLeastHalfMax(intensity_profile[i + 1], half[1], half[2]))
         IN ScanFirst(intensity_profile, half, i + 1,
                      IF st.thickness > 0 THEN [nx EXCEPT !.thickness = st.thickness]
                      ELSE nx)

calculate_thickness_FirstPeak(intensity_profile, threshold) ==
    ScanFirst(intensity_profile, <<SeqMax(intensity_profile), threshold>>, 0,
              [thickness |-> 0, in_peak |-> FALSE, start |-> 0]).thickness

\* the same scan closing a peak that is still open when the profile ends
calculate_thickness_CloseAtEnd(intensity_profile, threshold) ==
    LET st == Scan(intensity_profile, <<SeqMax(intensity_profile), threshold>>, 0,
                   [thickness |-> 0, in_peak |-> FALSE, start |-> 0])
    IN IF st.in_peak THEN Len(intensity_profile) - st.start ELSE st.thickness

calculate_thickness(intensity_profile, threshold) ==
    Scan(intensity_profile, <<SeqMax(intensity_profile), threshold>>, 0,
         [thickness |-> 0, in_peak |-> FALSE, start |-> 0]).thickness


\* ------------------------------------------------------------ line sampler
\* int(width * line_separation_percent), the fraction given in percent
line_separation(width, percent) == (width * percent) \div 100

\* x of line i (0-based) in extract_vertical_lines
LineX(width, n, percent, i) ==
    width \div 2 + (i - n \div 2) * line_separation(width, percent)

\* frame[:, x] exists: numpy takes -width <= x < width, anything else is an IndexError
ColumnInBounds(width, x) == -width <= x /\ x < width

\* the column frame[:, x] reads: a negative x counts from the right edge
ColumnRead(width, x) == IF x < 0 THEN width + x ELSE x

\* ----------------------------------------------------------- idle states
DetectorIdle ==
    /\ d_pc = "idle" /\ d_profile = <<>> /\ d_threshold = <<1, 2>> /\ d_result = 0

SamplerIdle ==
    /\ s_pc = "idle" /\ s_width = 0 /\ s_num_lines = 0 /\ s_percent = 0
    /\ s_i = 0 /\ s_lines = <<>>

RunIdle ==
    /\ pc = "idle" /\ failure = "none"
    /\ video = [opened |-> FALSE, frame_count |-> 0, frame_height |-> 0, frame_width |-> 0]
    /\ max_depth_mm = 0 /\ frame_interval = 0 /\ use_multiple_lines = FALSE
    /\ num_lines = Unbound /\ enable_visualizations = FALSE /\ use_exclusion_zone = FALSE
    /\ top_threshold_pixels = 0 /\ total_pixels = Unbound
    /\ exclusion_zone_depth = Unbound /\ depth_increment = Unbound
    /\ frame_num = 0 /\ frame = {} /\ line_i = 0 /\ line_thicknesses = <<>>
    /\ depths = <<>> /\ thicknesses = <<>> /\ sampled = <<>> /\ entry_frame = <<>>
    /\ measured = <<>>
    /\ pixel_to_mm_ratio = Unbound /\ thicknesses_mm = Unbound
    /\ csv_rows = Unbound /\ log_file = Unbound

\* ------------------------------------------- the detector applied on its own
Profiles(len, top) == [1..len -> 0..top]

InitThickness ==
    /\ d_pc = "call"
    /\ d_profile \in UNION {Profiles(n, MaxIntensity) : n \in 1..MaxProfileLen}
    /\ d_threshold \in Thresholds
    /\ d_result = 0
    /\ SamplerIdle /\ RunIdle

ApplyThickness ==
    /\ d_pc = "call"
    /\ d_result' = calculate_thickness(d_profile, d_threshold)
    /\ d_pc' = "returned"
    /\ UNCHANGED <<d_profile, d_threshold, samplerVars, runVars>>

NextThickness == ApplyThickness

SpecThickness == InitThickness /\ [][NextThickness]_vars

\* -------------------------------------------- the sampler applied on its own
Percents == {10, 30}

InitLines ==
    /\ s_pc = "loop"
    /\ s_width \in 1..MaxLineWidth
    /\ s_num_lines \in 1..MaxSampleLines
    /\ s_percent \in Percents
    /\ s_i = 0 /\ s_lines = <<>>
    /\ DetectorIdle /\ RunIdle

\* one pass of the for loop of extract_vertical_lines
ExtractLine ==
    /\ s_pc = "loop" /\ s_i < s_num_lines
    /\ LET x == LineX(s_width, s_num_lines, s_percent, s_i) IN
       IF ColumnInBounds(s_width, x)
       THEN /\ s_lines' = Append(s_lines, [x |-> x, column |-> ColumnRead(s_width, x)])
            /\ s_i' = s_i + 1
            /\ s_pc' = "loop"
       ELSE /\ s_pc' = "IndexError"
            /\ UNCHANGED <<s_i, s_lines>>
    /\ UNCHANGED <<s_width, s_num_lines, s_percent, detectorVars, runVars>>

ReturnLines ==
    /\ s_pc = "loop" /\ s_i >= s_num_lines
    /\ s_pc' = "returned"
    /\ UNCHANGED <<s_width, s_num_lines, s_percent, s_i, s_lines, detectorVars, runVars>>

NextLines == ExtractLine \/ ReturnLines

SpecLines == InitLines /\ [][NextLines]_vars

\* ------------------------------------------------------ script and analysis
\* what cv2.VideoCapture reports: a file that cannot be opened reports 0 for all
Videos ==
    {[opened |-> FALSE, frame_count |-> 0, frame_height |-> 0, frame_width |-> 0]}
    \cup [opened : {TRUE}, frame_count : 0..MaxFrames, frame_height : 1..MaxHeight,
          frame_width : MinWidth..MaxWidth]

\* the answers to the prompts; num_lines is asked only for multiple lines
Inputs ==
    /\ video \in Videos
    /\ max_depth_mm \in 1..MaxDepth
    /\ frame_interval \in 0..MaxStride
    /\ use_multiple_lines \in BOOLEAN
    /\ num_lines \in IF use_multiple_lines THEN {Bound(n) : n \in 1..MaxLines}
                    ELSE {Unbound}
    /\ enable_visualizations \in BOOLEAN

Locals ==
    /\ failure = "none"
    /\ top_threshold_pixels = 0 /\ total_pixels = Unbound
    /\ exclusion_zone_depth = Unbound /\ depth_increment = Unbound
    /\ frame_num = 0 /\ frame = {} /\ line_i = 0 /\ line_thicknesses = <<>>
    /\ depths = <<>> /\ thicknesses = <<>> /\ sampled = <<>> /\ entry_frame = <<>>
    /\ measured = <<>>
    /\ pixel_to_mm_ratio = Unbound /\ thicknesses_mm = Unbound
    /\ csv_rows = Unbound /\ log_file = Unbound

\* the script at the call of analyze_video, every prompt answered
Init ==
    /\ pc = "script"
    /\ Inputs
    /\ use_exclusion_zone \in BOOLEAN
    /\ Locals
    /\ DetectorIdle /\ SamplerIdle

\* the argument num_lines of analyze_video
LinesArg == IF use_multiple_lines THEN ValueOf(num_lines) ELSE 1

\* the script passes threshold=0.5 and line_separation_percent=0.1
ThresholdArg == <<1, 2>>

SeparationArg == 10

Raise(what) ==
    /\ pc' = "raised"
    /\ failure' = what

\* the call: its argument list names top_threshold_pixels, which no line of the
\* script binds, when use_exclusion_zone is set
CallAnalyzeVideo ==
    /\ pc = "script"
    /\ IF use_exclusion_zone
       THEN Raise("NameError: top_threshold_pixels")
       ELSE pc' = "analyze_video" /\ UNCHANGED failure
    /\ UNCHANGED <<inputVars, setupVars, loopVars, outputVars, detectorVars, samplerVars>>

\* analyze_video up to the depth increment, no exclusion zone
SetupNoExclusion ==
    /\ pc = "analyze_video" /\ ~use_exclusion_zone
    /\ total_pixels' = Bound(video.frame_height)
    /\ pc' = "depth_increment"
    /\ UNCHANGED <<failure, inputVars, top_threshold_pixels, exclusion_zone_depth,
                   depth_increment, loopVars, outputVars, detectorVars, samplerVars>>

\* what the user may type at the exclusion prompt, in half pixels
ExclusionAnswers == -1..(2 * video.frame_height + 1)

\* exclusion_zone_depth < 0 or exclusion_zone_depth > height
ExclusionInvalid(d) == d < 0 \/ d > 2 * video.frame_height

\* what video.read() may give for frame 0: a source without frames gives no frame
FirstFrameReads == IF video.frame_count > 0 THEN BOOLEAN ELSE {FALSE}

\* analyze_video with the exclusion zone: frame 0 is read and the first answer taken;
\* when the read fails nothing of the branch runs and total_pixels stays unbound
ExclusionFirstFrame ==
    /\ pc = "analyze_video" /\ use_exclusion_zone
    /\ \E success \in FirstFrameReads :
          IF success
          THEN /\ \E d \in ExclusionAnswers : exclusion_zone_depth' = Bound(d)
               /\ pc' = "exclusion_check"
          ELSE /\ pc' = "depth_increment"
               /\ UNCHANGED exclusion_zone_depth
    /\ UNCHANGED <<failure, inputVars, top_threshold_pixels, total_pixels,
                   depth_increment, loopVars, outputVars, detectorVars, samplerVars>>

\* the while loop asks again for as long as the answer is out of range
ExclusionReprompt ==
    /\ pc = "exclusion_check" /\ ExclusionInvalid(ValueOf(exclusion_zone_depth))
    /\ \E d \in ExclusionAnswers : exclusion_zone_depth' = Bound(d)
    /\ UNCHANGED <<pc, failure, inputVars, top_threshold_pixels, total_pixels,
                   depth_increment, loopVars, outputVars, detectorVars, samplerVars>>

\* int(exclusion_zone_depth)
IntOfHalves(d) == d \div 2

ExclusionAccept ==
    /\ pc = "exclusion_check" /\ ~ExclusionInvalid(ValueOf(exclusion_zone_depth))
    /\ top_threshold_pixels' = IntOfHalves(ValueOf(exclusion_zone_depth))
    /\ total_pixels' = Bound(video.frame_height
                               - IntOfHalves(ValueOf(exclusion_zone_depth)))
    /\ pc' = "depth_increment"
    /\ UNCHANGED <<failure, inputVars, exclusion_zone_depth, depth_increment,
                   loopVars, outputVars, detectorVars, samplerVars>>

\* the depth divided over the sampled indices instead of over all frames
DepthIncrementOf_PerSample(max_depth, frame_count) ==
    DivInt(FromInt(max_depth),
           IF frame_interval = 0 THEN frame_count
           ELSE (frame_count + frame_interval - 1) \div frame_interval)

\* max_depth / frame_count
DepthIncrementOf(max_depth, frame_count) == DivInt(FromInt(max_depth), frame_count)

\* an empty source given a zero increment instead of the division by zero
DepthIncrement_ZeroForEmpty ==
    /\ pc = "depth_increment"
    /\ depth_increment' = IF video.frame_count = 0 THEN Bound(FromInt(0))
                           ELSE Bound(DepthIncrementOf(max_depth_mm, video.frame_count))
    /\ pc' = "range"
    /\ UNCHANGED <<failure, inputVars, top_threshold_pixels, total_pixels,
                   exclusion_zone_depth, loopVars, outputVars, detectorVars, samplerVars>>

DepthIncrement ==
    /\ pc = "depth_increment"
    /\ IF video.frame_count = 0
       THEN Raise("ZeroDivisionError: max_depth / frame_count") /\ UNCHANGED depth_increment
       ELSE /\ depth_increment' = Bound(DepthIncrementOf(max_depth_mm, video.frame_count))
            /\ pc' = "range"
            /\ UNCHANGED failure
    /\ UNCHANGED <<inputVars, top_threshold_pixels, total_pixels, exclusion_zone_depth,
                   loopVars, outputVars, detectorVars, samplerVars>>

\* range(0, max_frame_num, frame_interval)
RangeFrames ==
    /\ pc = "range"
    /\ IF frame_interval = 0
       THEN Raise("ValueError: range() arg 3 must not be zero")
       ELSE pc' = "loop" /\ UNCHANGED failure
    /\ UNCHANGED <<inputVars, setupVars, loopVars, outputVars, detectorVars, samplerVars>>

\* the x of every line of a frame, as analyze_video asks for them
LineXs == [i \in 0..(LinesArg - 1) |->
              LineX(video.frame_width, LinesArg, SeparationArg, i)]

\* the range is exhausted at index f
RangeDone_SkipsLast(f, stop) == f >= stop - 1

RangeDone(f, stop) == f >= stop

\* the next index of the range: the read, and on success the lines of the frame
NextFrame ==
    /\ pc = "loop"
    /\ IF RangeDone(frame_num, video.frame_count)
       THEN /\ pc' = "return"
            /\ UNCHANGED <<failure, loopVars>>
       ELSE \E success \in BOOLEAN :
            /\ sampled' = Append(sampled, [frame |-> frame_num, success |-> success,
                                            positive |-> FALSE])
            /\ IF ~success
               THEN /\ frame_num' = frame_num + frame_interval
                    /\ pc' = "loop"
                    /\ UNCHANGED <<failure, frame, line_i, line_thicknesses, measured>>
               ELSE IF \E i \in DOMAIN LineXs : ~ColumnInBounds(video.frame_width, LineXs[i])
               THEN /\ Raise("IndexError: frame[:, x]")
                    /\ UNCHANGED <<frame_num, frame, line_i, line_thicknesses, measured>>
               ELSE /\ frame' = {}
                    /\ line_i' = 0
                    /\ line_thicknesses' = <<>>
                    /\ measured' = <<>>
                    /\ pc' = "lines"
                    /\ UNCHANGED <<failure, frame_num>>
            /\ UNCHANGED <<depths, thicknesses, entry_frame>>
    /\ UNCHANGED <<inputVars, setupVars, outputVars, detectorVars, samplerVars>>

\* preprocessed_frame[:top_threshold_pixels, :] = 0, seen on one column
ApplyTopThreshold(line, top) ==
    [r \in 1..Len(line) |-> IF r <= top THEN 0 ELSE line[r]]

\* a zero measurement kept as well
KeepThickness_NonNegative(thickness) == thickness >= 0

\* thickness > 0: the measurement is kept
KeepThickness(thickness) == thickness > 0

\* one pass of the loop over vertical_lines. frame holds the columns of the current
\* frame that a later line reads again; any other column is seen here for the
\* first and only time.
MeasureLine ==
    /\ pc = "lines"
    /\ LET w == video.frame_width
           c == ColumnRead(w, LineXs[line_i])
           again == \E j \in (line_i + 1)..(LinesArg - 1) : ColumnRead(w, LineXs[j]) = c
       IN \E line \in [1..video.frame_height -> FramePixels] :
          /\ (\E e \in frame : e[1] = c) => <<c, line>> \in frame
          /\ LET thickness == calculate_thickness(
                                  ApplyTopThreshold(line, top_threshold_pixels),
                                  ThresholdArg)
             IN /\ line_thicknesses' = IF KeepThickness(thickness)
                                        THEN Append(line_thicknesses, thickness)
                                        ELSE line_thicknesses
                /\ measured' = Append(measured, thickness)
                /\ sampled' = [sampled EXCEPT ![Len(sampled)].positive =
                                                 @ \/ thickness > 0]
          /\ frame' = IF again THEN frame \cup {<<c, line>>}
                       ELSE {e \in frame : e[1] # c}
    /\ line_i' = line_i + 1
    /\ pc' = IF line_i + 1 >= LinesArg THEN "aggregate" ELSE "lines"
    /\ UNCHANGED <<failure, frame_num, depths, thicknesses, entry_frame,
                   inputVars, setupVars, outputVars, detectorVars, samplerVars>>

\* sum(line_thicknesses) / len(line_thicknesses)
AverageThickness(ts) == Frac(SeqSum(ts), Len(ts))

\* frame_num * depth_increment
DepthOfFrame(f, increment) == MulInt(f, increment)

\* what visualize_intensity_profile raises: line_thicknesses[i] for a line whose
\* measurement was dropped, or else the name max_depth, which is no global
VisualizeIntensityProfile ==
    IF Len(line_thicknesses) < LinesArg
    THEN "IndexError: line_thicknesses[i]"
    ELSE "NameError: max_depth"

\* the end of a frame: the entry is appended when a measurement was kept
AppendMeasurement ==
    /\ pc = "aggregate"
    /\ IF line_thicknesses # <<>>
       THEN /\ depths' = Append(depths, DepthOfFrame(frame_num, ValueOf(depth_increment)))
            /\ thicknesses' = Append(thicknesses, AverageThickness(line_thicknesses))
            /\ entry_frame' = Append(entry_frame, frame_num)
            /\ IF enable_visualizations
               THEN Raise(VisualizeIntensityProfile) /\ UNCHANGED frame_num
               ELSE /\ frame_num' = frame_num + frame_interval
                    /\ pc' = "loop"
                    /\ UNCHANGED failure
       ELSE /\ frame_num' = frame_num + frame_interval
            /\ pc' = "loop"
            /\ UNCHANGED <<failure, depths, thicknesses, entry_frame>>
    /\ UNCHANGED <<frame, line_i, line_thicknesses, sampled, measured,
                   inputVars, setupVars, outputVars, detectorVars, samplerVars>>

\* return depths, thicknesses, analysis_time, total_pixels: the locals end here
ReturnSeries ==
    /\ pc = "return"
    /\ IF total_pixels = Unbound
       THEN Raise("UnboundLocalError: total_pixels")
       ELSE pc' = "calibrate" /\ UNCHANGED failure
    /\ frame_num' = 0 /\ frame' = {} /\ line_i' = 0 /\ line_thicknesses' = <<>>
    /\ measured' = <<>>
    /\ UNCHANGED <<depths, thicknesses, sampled, entry_frame,
                   inputVars, setupVars, outputVars, detectorVars, samplerVars>>

\* max_depth_mm / total_pixels
PixelToMmRatio(max_depth, pixels) == DivInt(FromInt(max_depth), pixels)

\* thickness * pixel_to_mm_ratio
ToMm(thickness, ratio) == Mul(thickness, ratio)

Calibrate ==
    /\ pc = "calibrate"
    /\ IF ValueOf(total_pixels) = 0
       THEN /\ Raise("ZeroDivisionError: max_depth_mm / total_pixels")
            /\ UNCHANGED <<pixel_to_mm_ratio, thicknesses_mm>>
       ELSE /\ pixel_to_mm_ratio' = Bound(PixelToMmRatio(max_depth_mm, ValueOf(total_pixels)))
            /\ thicknesses_mm' =
                  Bound([i \in 1..Len(thicknesses) |->
                            ToMm(thicknesses[i],
                                 PixelToMmRatio(max_depth_mm, ValueOf(total_pixels)))])
            /\ pc' = "save_csv"
            /\ UNCHANGED failure
    /\ UNCHANGED <<csv_rows, log_file, inputVars, setupVars, loopVars,
                   detectorVars, samplerVars>>

\* the rows under the header: zip(depths, thicknesses, thicknesses_mm)
SaveCsv ==
    /\ pc = "save_csv"
    /\ csv_rows' = Bound([i \in 1..Len(depths) |->
                              <<depths[i], thicknesses[i], ValueOf(thicknesses_mm)[i]>>])
    /\ pc' = "write_log"
    /\ UNCHANGED <<failure, pixel_to_mm_ratio, thicknesses_mm, log_file,
                   inputVars, setupVars, loopVars, detectorVars, samplerVars>>

\* the plot, then the log file
WriteLog ==
    /\ pc = "write_log"
    /\ log_file' = Bound([total_pixels |-> ValueOf(total_pixels),
                           max_depth_mm |-> max_depth_mm,
                           pixel_to_mm_ratio |-> ValueOf(pixel_to_mm_ratio)])
    /\ pc' = "done"
    /\ UNCHANGED <<failure, pixel_to_mm_ratio, thicknesses_mm, csv_rows,
                   inputVars, setupVars, loopVars, detectorVars, samplerVars>>

AnalysisNext ==
    \/ DepthIncrement
    \/ RangeFrames
    \/ NextFrame
    \/ MeasureLine
    \/ AppendMeasurement
    \/ ReturnSeries
    \/ Calibrate
    \/ SaveCsv
    \/ WriteLog

Next ==
    \/ CallAnalyzeVideo
    \/ SetupNoExclusion
    \/ AnalysisNext

\* a run of the script
Spec == Init /\ [][Next]_vars

\* analyze_video from its entry with the exclusion zone switched on and
\* top_threshold_pixels at its default 0, then the lines of the script after the
\* call. A run of the script does not get here (CallAnalyzeVideo raises first):
\* this is the function as it stands, for what its exclusion branch does.
InitCall ==
    /\ pc = "analyze_video"
    /\ Inputs
    /\ use_exclusion_zone = TRUE
    /\ Locals
    /\ DetectorIdle /\ SamplerIdle

NextCall ==
    \/ ExclusionFirstFrame
    \/ ExclusionReprompt
    \/ ExclusionAccept
    \/ AnalysisNext

SpecCall == InitCall /\ [][NextCall]_vars

\* ------------------------------------------------ claims on the detector
\* sample k (1-based) of the profile is at or above threshold x max(profile)
Above(p, t, k) == AtLeastHalfMax(p[k], SeqMax(p), t)

\* the pulses of a profile: the maximal runs <<first, last>> of samples at or above
\* the threshold
PulseRuns(p, t) ==
    {r \in (1..Len(p)) \X (1..Len(p)) :
        /\ r[1] <= r[2]
        /\ \A k \in r[1]..r[2] : Above(p, t, k)
        /\ (r[1] = 1 \/ ~Above(p, t, r[1] - 1))
        /\ (r[2] = Len(p) \/ ~Above(p, t, r[2] + 1))}

RunWidth(r) == r[2] - r[1] + 1

\* C1 as stated: a profile with exactly one pulse of width W gives W, wherever the
\* pulse lies in the profile.
C1_SinglePulseAnywhere ==
    d_pc = "returned" =>
        \A r \in PulseRuns(d_profile, d_threshold) :
            PulseRuns(d_profile, d_threshold) = {r} => d_result = RunWidth(r)

\* C1 amended: a profile with exactly one pulse of width W gives W when at least one
\* sample below the threshold follows the pulse, and 0 when the pulse runs to the
\* last sample of the profile.
C1_SinglePulseClosed ==
    d_pc = "returned" =>
        \A r \in PulseRuns(d_profile, d_threshold) :
            PulseRuns(d_profile, d_threshold) = {r} =>
                d_result = IF r[2] < Len(d_profile) THEN RunWidth(r) ELSE 0

\* a single pulse of width 2 or more, with samples below the threshold on both sides
C1_Witness ==
    /\ d_pc = "returned"
    /\ \E r \in PulseRuns(d_profile, d_threshold) :
          /\ PulseRuns(d_profile, d_threshold) = {r}
          /\ 1 < r[1] /\ r[1] < r[2] /\ r[2] < Len(d_profile)
          /\ d_result = RunWidth(r)

\* C2 as stated: a profile with two separated pulses gives the width of the last
\* pulse, whatever the width of the first.
C2_LastPulseWins ==
    d_pc = "returned" =>
        \A r1, r2 \in PulseRuns(d_profile, d_threshold) :
            (PulseRuns(d_profile, d_threshold) = {r1, r2} /\ r1[2] < r2[1]) =>
                d_result = RunWidth(r2)

\* C2 amended: a profile with two separated pulses gives the width of the last
\* pulse that is followed by a sample below the threshold: the second pulse when it
\* ends before the last sample, the first pulse when the second runs to the last
\* sample of the profile.
C2_LastClosedPulseWins ==
    d_pc = "returned" =>
        \A r1, r2 \in PulseRuns(d_profile, d_threshold) :
            (PulseRuns(d_profile, d_threshold) = {r1, r2} /\ r1[2] < r2[1]) =>
                d_result = IF r2[2] < Len(d_profile) THEN RunWidth(r2)
                           ELSE RunWidth(r1)

\* two pulses of different widths, the second closed, and the second one's width
\* returned
C2_Witness ==
    /\ d_pc = "returned"
    /\ \E r1, r2 \in PulseRuns(d_profile, d_threshold) :
          /\ PulseRuns(d_profile, d_threshold) = {r1, r2} /\ r1[2] < r2[1]
          /\ r2[2] < Len(d_profile)
          /\ RunWidth(r1) # RunWidth(r2)
          /\ d_result = RunWidth(r2)

\* the profile never rises to the threshold: no sample is at or above it
NeverRises(p, t) == \A k \in 1..Len(p) : ~Above(p, t, k)

\* the profile rises and never drops back: from its first sample at or above the
\* threshold on, every sample to the end of the profile is at or above it
NeverDropsBack(p, t) ==
    \E k \in 1..Len(p) :
        /\ Above(p, t, k)
        /\ \A j \in 1..(k - 1) : ~Above(p, t, j)
        /\ \A j \in k..Len(p) : Above(p, t, j)

\* C11: for every profile and every threshold in (0, 1] the detector returns a
\* value >= 0, and it returns 0 whenever no entry/exit crossing completes: the
\* profile never rises to the threshold, or it rises and never drops back below
\* it before the profile ends.
C11_ZeroWithoutCrossing ==
    d_pc = "returned" =>
        /\ d_result >= 0
        /\ (NeverRises(d_profile, d_threshold)
              \/ NeverDropsBack(d_profile, d_threshold)) => d_result = 0

\* a profile that starts below the threshold, rises, and stays at or above it for
\* two samples or more up to its last sample: 0 is returned
C11_Witness ==
    /\ d_pc = "returned"
    /\ ~Above(d_profile, d_threshold, 1)
    /\ NeverDropsBack(d_profile, d_threshold)
    /\ Above(d_profile, d_threshold, Len(d_profile) - 1)
    /\ d_result = 0

\* ----------------------------------------------- claims on the frame loop
\* analyze_video has returned
Returned == pc \in {"calibrate", "save_csv", "write_log", "done"}

\* the frame indices the loop is to sample
SampledIndices ==
    {f \in 0..(video.frame_count - 1) : f % frame_interval = 0}

IsPositive(t) == t > 0

Measurable(r) == r.success /\ r.positive

FramesOf(records) == [k \in 1..Len(records) |-> records[k].frame]

\* C3: once analyze_video has returned, the sampled indices are exactly 0, stride,
\* 2*stride, ... below frame_count, in increasing order, and the series holds one
\* entry for each of them whose read succeeded and that measured a positive
\* thickness on some line, in that order, and no other entry.
C3_EntriesAreMeasurableFrames ==
    Returned =>
        /\ {sampled[k].frame : k \in 1..Len(sampled)} = SampledIndices
        /\ \A k \in 1..(Len(sampled) - 1) : sampled[k].frame < sampled[k + 1].frame
        /\ entry_frame = FramesOf(SelectSeq(sampled, Measurable))
        /\ Len(depths) = Len(entry_frame)
        /\ Len(thicknesses) = Len(entry_frame)

\* a failed read between two frames that each gave an entry
C3_Witness ==
    /\ Returned
    /\ Len(sampled) = 3
    /\ Measurable(sampled[1]) /\ ~sampled[2].success /\ Measurable(sampled[3])
    /\ entry_frame = <<sampled[1].frame, sampled[3].frame>>

C4_Counts ==
    /\ Len(thicknesses) <= Len(sampled)
    /\ \A i \in 1..Len(thicknesses) : thicknesses[i][1] > 0 /\ thicknesses[i][2] > 0

C4_Append ==
    thicknesses' # thicknesses =>
        LET positive == SelectSeq(measured, IsPositive) IN
        /\ Len(measured) = LinesArg
        /\ positive # <<>>
        /\ thicknesses' = Append(thicknesses, Frac(SeqSum(positive), Len(positive)))

\* C4: in every state the series is no longer than the list of sampled indices and
\* every thickness in it is strictly positive; the series changes only by one entry
\* appended at its end, and that entry is the arithmetic mean of the strictly
\* positive thicknesses among those measured on the lines of the current frame, of
\* which there is at least one.
C4_MeanOfPositiveLines == [](C4_Counts) /\ [][C4_Append]_vars

\* an entry of 3/2, the mean of a line of thickness 1 and a line of thickness 2
C4_Witness ==
    /\ pc = "loop"
    /\ measured \in {<<1, 2>>, <<2, 1>>}
    /\ thicknesses # <<>>
    /\ thicknesses[Len(thicknesses)] = <<3, 2>>

\* C5: every entry made for frame index f has depth f x max_depth / frame_count,
\* whatever the stride, and the depths do not decrease along the series.
C5_DepthOfFrameIndex ==
    /\ Len(depths) = Len(entry_frame)
    /\ \A i \in 1..Len(depths) :
          depths[i] = Frac(entry_frame[i] * max_depth_mm, video.frame_count)
    /\ \A i \in 1..Len(depths) : \A j \in i..Len(depths) : Leq(depths[i], depths[j])

\* with a stride of 2 on 3 frames, the entries of frames 0 and 2, the second at
\* two thirds of the maximum depth
C5_Witness ==
    /\ frame_interval = 2 /\ video.frame_count = 3
    /\ entry_frame = <<0, 2>>
    /\ depths = <<Frac(0, 1), Frac(2 * max_depth_mm, 3)>>

\* ---------------------------------------------------- claims on the script
\* inputs on which a run with neither visualizations nor exclusion zone completes
Processable == video.frame_count > 0 /\ frame_interval > 0

\* C6: with the exclusion zone off or on, a run on a processable source reaches the
\* calibration, where total_pixels = frame_height - top_threshold_pixels,
\* pixel_to_mm_ratio x total_pixels = max_depth, and every exported thickness in
\* mm is the thickness in pixels times that ratio.
C6_CalibrationInBothModes ==
    /\ (Processable /\ ~enable_visualizations) => pc # "raised"
    /\ pixel_to_mm_ratio # Unbound =>
          /\ ValueOf(total_pixels) = video.frame_height - top_threshold_pixels
          /\ Mul(ValueOf(pixel_to_mm_ratio), FromInt(ValueOf(total_pixels)))
                = FromInt(max_depth_mm)
    /\ csv_rows # Unbound =>
          \A i \in 1..Len(ValueOf(csv_rows)) :
              ValueOf(csv_rows)[i][3]
                = Mul(ValueOf(csv_rows)[i][2], ValueOf(pixel_to_mm_ratio))

\* C7: an exclusion offset equal to the frame height is not accepted, and the ratio
\* is never computed from zero usable pixels.
C7_FullFrameExclusionRejected ==
    /\ (pc \notin {"analyze_video", "exclusion_check"} /\ exclusion_zone_depth # Unbound)
          => ValueOf(exclusion_zone_depth) # 2 * video.frame_height
    /\ total_pixels # Unbound => ValueOf(total_pixels) > 0
    /\ failure # "ZeroDivisionError: max_depth_mm / total_pixels"

C9_SameCompletion ==
    (Processable /\ ~use_exclusion_zone) => pc # "raised"

\* ----------------------------------------------- claims on the line sampler
\* x brought into [0, width)
Clamp(width, x) == IF x < 0 THEN 0 ELSE IF x >= width THEN width - 1 ELSE x

=============================================================================
